---- MODULE Spec2Model ----
(***************************************************************************)
(* A model of render.go (package macaron): the process-wide template-set   *)
(* registries, the compiler that fills them, and the per-request renderer   *)
(* with its layout/yield protocol, run by concurrent request workers.       *)
(*                                                                         *)
(* Strings that the code takes apart (paths, template names, header values) *)
(* are sequences of tokens: "." and "/" are tokens of their own, every      *)
(* other token is a run of characters holding neither.  The empty Go string *)
(* is the empty sequence.                                                   *)
(***************************************************************************)
EXTENDS Integers, Sequences, FiniteSets, TLC

\* ------------------------------------------------------------------ bounds
MaxReqs == 2     \* calls started after startup (Renderer, HTML*, SetTemplatePath)

\* --------------------------------------------------------------- constants
ContentHTML == <<"text/html">>
defaultCharset == "UTF-8"
DEFAULT_TPL_SET_NAME == "DEFAULT"
DEV == "development"
PROD == "production"
StatusInternalServerError == 500

Procs == {"w1", "w2"}
None == "none"

\* Set names a caller can pass; only the first two are ever given to Renderer.
SetNames == {DEFAULT_TPL_SET_NAME, "S2", "missing-set"}

\* ------------------------------------------------------------- file system
\* Template source text, one token per action: literal text, or one of these.
TokYield == "{{yield}}"
TokCurrent == "{{current}}"
TokDot == "{{.}}"
TokFail == "{{template \"nosuch\"}}"

File(rel, body) == [rel |-> rel, isDir |-> FALSE, readable |-> TRUE, parses |-> TRUE, body |-> body]
Dir(rel) == [rel |-> rel, isDir |-> TRUE, readable |-> FALSE, parses |-> FALSE, body |-> << >>]

\* What filepath.Walk visits below the root of each directory, in lexical order.
DirEntries(dir) ==
  CASE dir = "templates" ->
         << File(<<"a", ".", "tmpl">>, <<"A:", TokDot>>),
            File(<<"b", ".", "html">>, <<"B:", TokCurrent>>),
            File(<<"layout", ".", "tmpl">>, <<"<html>", TokYield, TokCurrent, "</html>">>),
            File(<<"notes", ".", "txt">>, <<"notes">>) >>
    [] dir = "alt" ->
         << File(<<"a", ".", "html">>, <<"ALT:", TokDot>>),
            File(<<"a", ".", "tmpl">>, <<"alt:", TokDot>>),
            File(<<"layout", ".", "tmpl">>, <<"[", TokYield, "]">>) >>
    [] dir = "broken" ->
         << File(<<"a", ".", "tmpl">>, <<"A:", TokDot>>),
            [File(<<"bad", ".", "tmpl">>, <<"{{">>) EXCEPT !.parses = FALSE] >>
    [] dir = "locked" ->
         << [File(<<"a", ".", "tmpl">>, <<>>) EXCEPT !.readable = FALSE] >>
    [] dir = "deep" ->
         << File(<<"README">>, <<"readme">>),
            File(<<"UP", ".", "TMPL">>, <<"UP">>),
            File(<<"a", ".", "b", ".", "tmpl">>, <<"AB">>),
            Dir(<<"sub">>),
            Dir(<<"sub", "/", "dir">>),
            File(<<"sub", "/", "dir", "/", "page", ".", "tmpl">>, <<"PAGE">>),
            File(<<"top", ".", "html">>, <<"TOP">>) >>
    [] dir = "dotted" ->
         << File(<<"index", ".", "tmpl">>, <<"INDEX">>),
            Dir(<<"v1", ".", "2">>),
            File(<<"v1", ".", "2", "/", "page", ".", "tmpl">>, <<"V1.2">>) >>
    [] OTHER -> << >>

\* os.Lstat(dir) succeeds.
DirExists(dir) == dir \in {"templates", "alt", "broken", "locked", "deep", "dotted"}

\* ------------------------------------------------------------ pure helpers
\* strings.Index(s, ".") # -1
HasDot(s) == \E i \in 1..Len(s) : s[i] = "."

\* (A set of one element, here and below, makes TLC work a value out once before
\* it is used: x \in {e} is x == e.)
RECURSIVE Split(_, _)
\* strings.Split(s, sep) for a one-character sep
Split(s, sep) ==
  IF \A i \in 1..Len(s) : s[i] # sep
  THEN << s >>
  ELSE LET i == CHOOSE k \in 1..Len(s) : s[k] = sep /\ \A j \in 1..(k-1) : s[j] # sep
       IN  CHOOSE r \in { << SubSeq(s, 1, i-1) >> \o Split(rest, sep) :
                            rest \in { SubSeq(s, i+1, Len(s)) } } : TRUE

RECURSIVE Join(_, _)
\* strings.Join(parts, sep)
Join(parts, sep) ==
  IF Len(parts) = 0 THEN << >>
  ELSE IF Len(parts) = 1 THEN parts[1]
  ELSE CHOOSE r \in { parts[1] \o << sep >> \o Join(rest, sep) : rest \in { Tail(parts) } } : TRUE

getExt(s) ==
  IF ~HasDot(s) THEN << >>
  ELSE CHOOSE r \in { << "." >> \o Join(parts, ".") : parts \in { Tail(Split(s, ".")) } } : TRUE

\* filepath.ToSlash on a host whose separator is sep
ToSlash(s, sep) == [i \in 1..Len(s) |-> IF s[i] = sep THEN "/" ELSE s[i]]
Separator == "/"

prepareCharset(charset) ==
  IF charset # "" THEN << "; charset=", charset >>
  ELSE << "; charset=", defaultCharset >>

\* ------------------------------------------------------------ the compiler
\* Index of the first configured extension equal to ext, 0 when there is none.
MatchingExtension(ext, extensions) ==
  IF \E i \in 1..Len(extensions) : extensions[i] = ext
  THEN CHOOSE i \in 1..Len(extensions) :
         extensions[i] = ext /\ \A j \in 1..(i-1) : extensions[j] # ext
  ELSE 0

\* r[0 : len(r)-len(ext)], with forward slashes
TemplateName(r, ext) == ToSlash(SubSeq(r, 1, Len(r) - Len(ext)), Separator)

Inert == [bound |-> FALSE, t |-> 0, tplName |-> << >>, data |-> ""]
helperFuncs == [yield |-> Inert, current |-> Inert]

\* The callback given to filepath.Walk, on one visited path; acc is the tree so
\* far.  The callback does not look at the error Walk hands it.
walkFn(acc, options, e) ==
  IF acc.panic # "" THEN acc
  ELSE CHOOSE r \in
         { IF MatchingExtension(ext, options.Extensions) = 0 THEN acc
           ELSE IF e.isDir \/ ~e.readable THEN [acc EXCEPT !.panic = "read"]
           ELSE IF ~e.parses THEN [acc EXCEPT !.panic = "parse"]
           ELSE [acc EXCEPT !.nodes = (TemplateName(e.rel, ext) :> e.body) @@ acc.nodes] :
           ext \in { getExt(e.rel) } } : TRUE

RECURSIVE WalkEntries(_, _, _, _)
\* The callback on entries[i..], in turn.  (The set of one element makes TLC
\* work the tree so far out once, before it goes on.)
WalkEntries(acc, options, entries, i) ==
  IF i > Len(entries) THEN acc
  ELSE CHOOSE r \in { WalkEntries(a, options, entries, i + 1) :
                        a \in { walkFn(acc, options, e) : e \in { entries[i] } } } : TRUE

RootEntry == [rel |-> << "." >>, isDir |-> TRUE, readable |-> FALSE, parses |-> FALSE, body |-> << >>]

\* filepath.Walk(dir, walkFn): the root is visited whether or not Lstat finds it
\* (the callback returns nil on the root, so Walk returns nil for a missing
\* directory), then everything below an existing root.  filepath.Rel cannot fail
\* on a path Walk built from dir, so the callback never returns an error.
Walk(dir, options) ==
  LET start == [panic |-> "", nodes |-> (<< dir >> :> << "Macaron" >>)]
      root  == walkFn(start, options, RootEntry)
  IN  IF DirExists(dir) THEN WalkEntries(root, options, DirEntries(dir), 1)
      ELSE root

\* The tree compile builds before it takes the lock (lines 178-217).
BuildTree(options) ==
  LET w == Walk(options.Directory, options)
  IN  [panic |-> w.panic,
       tree  |-> [dir |-> options.Directory, nodes |-> w.nodes, funcs |-> helperFuncs]]

\* (a compile that installs every tree under the default key)
InstallKey_Default(options) == DEFAULT_TPL_SET_NAME

\* The registry key compile installs the tree under (line 222).
InstallKey(options) == options.Name

\* ------------------------------------------------------------------- state
VARIABLES
  Env,         \* the process mode
  tplSets,     \* set name -> compiled tree (an index of trees), 0 for nil
  tplSetOpts,  \* set name -> *RenderOptions (an index of opts), 0 for nil
  opts,        \* the RenderOptions objects allocated so far
  trees,       \* the template trees allocated so far
  lockW,       \* the worker holding lock exclusively, or None
  lockR,       \* the workers holding lock shared
  lockWait,    \* the workers blocked in lock.Lock()
  handlers,    \* the handlers Renderer has returned: [Opt, CompiledCharset]
  crashed,     \* the process has died of a panic or a runtime fault
  nreq,        \* calls started
  pc, req, lv, \* per worker: position, the call's arguments, its locals
  sink,        \* per worker: the ResponseWriter of the request
  hist         \* per worker: what the call has done so far (for the properties)

vars == << Env, tplSets, tplSetOpts, opts, trees, lockW, lockR, lockWait,
           handlers, crashed, nreq, pc, req, lv, sink, hist >>

NullHandler == [Opt |-> 0, CompiledCharset |-> << >>]
NullOptions == [Name |-> "", Directory |-> "", Layout |-> << >>, Extensions |-> << >>,
                Charset |-> "", IndentJSON |-> FALSE, IndentXML |-> FALSE,
                PrefixJSON |-> << >>, PrefixXML |-> << >>, HTMLContentType |-> << >>]
NullReq == [op |-> None, options |-> NullOptions, h |-> NullHandler, setName |-> "",
            tplName |-> << >>, data |-> "", hasOpt |-> FALSE, optLayout |-> << >>,
            dir |-> "", toSink |-> FALSE, status |-> 0, v |-> "", upstream |-> << >>]
NullLv == [opt |-> NullOptions, renderOpt |-> 0, copt |-> 0, ct |-> 0, t |-> 0,
           tplName |-> << >>, layout |-> << >>, stack |-> << >>, out |-> << >>,
           err |-> "", result |-> << >>]
NullSink == [header |-> << >>, status |-> 0, body |-> << >>, ev |-> << >>]
NullHist == [overlap |-> FALSE, yieldCalls |-> << >>, curCalls |-> << >>,
             installed |-> 0, acquired |-> 0, released |-> 0]

\* The defaults of prepareOptions (lines 141-153).
prepareOptions(o) ==
  [o EXCEPT !.Name = IF o.Name = "" THEN DEFAULT_TPL_SET_NAME ELSE o.Name,
            !.Directory = IF o.Directory = "" THEN "templates" ELSE o.Directory,
            !.Extensions = IF Len(o.Extensions) = 0
                           THEN << << ".", "tmpl" >>, << ".", "html" >> >>
                           ELSE o.Extensions,
            !.HTMLContentType = IF Len(o.HTMLContentType) = 0 THEN ContentHTML
                                ELSE o.HTMLContentType]

StartupOptions == prepareOptions([NullOptions EXCEPT !.Layout = << "layout" >>])

\* Init is the process once the application has made the Renderer call of its
\* startup, for the default set with a layout, and before it serves a request:
\* what lines 233-237 leave behind when nothing runs beside them.
Init ==
  /\ Env \in {DEV, PROD}
  /\ opts = << StartupOptions >>
  /\ tplSetOpts = [n \in SetNames |-> IF n = StartupOptions.Name THEN 1 ELSE 0]
  /\ trees = << BuildTree(StartupOptions).tree >>
  /\ tplSets = [n \in SetNames |-> IF n = InstallKey(StartupOptions) THEN 1 ELSE 0]
  /\ lockW = None
  /\ lockR = {}
  /\ lockWait = {}
  /\ handlers = { [Opt |-> 1, CompiledCharset |-> prepareCharset(StartupOptions.Charset)] }
  /\ crashed = FALSE
  /\ nreq = 0
  /\ pc = [p \in Procs |-> "idle"]
  /\ req = [p \in Procs |-> NullReq]
  /\ lv = [p \in Procs |-> NullLv]
  /\ sink = [p \in Procs |-> NullSink]
  /\ hist = [p \in Procs |-> NullHist]

\* lock.RLock() returns: no writer holds the lock and none is waiting for it.
CanRLock == lockW = None /\ lockWait = {}
\* lock.Lock() returns
CanLock == lockW = None /\ lockR = {}

Panic(p, why) ==
  /\ crashed' = TRUE
  /\ pc' = [pc EXCEPT ![p] = "panicked"]
  /\ lv' = [lv EXCEPT ![p].err = why]

Active(q) == pc[q] \notin {"idle", "done", "panicked"}
Rendering(q) == Active(q) /\ req[q].op = "HTML"

\* A free worker takes the next call.  The workers are interchangeable, so the
\* first call of a run is given to w1.
BeginCall(p) ==
  /\ ~crashed
  /\ pc[p] \in {"idle", "done"}
  /\ nreq < MaxReqs
  /\ nreq = 0 => p = "w1"
  /\ nreq' = nreq + 1

\* ... on a request whose ResponseWriter nothing has touched yet
Begin(p) ==
  /\ BeginCall(p)
  /\ sink' = [sink EXCEPT ![p] = NullSink]

\* ------------------------------------------------- Renderer, prepareOptions
\* What a caller hands to Renderer.
RendererInputs ==
  { NullOptions,
    [NullOptions EXCEPT !.Name = "S2", !.Directory = "alt"],
    [NullOptions EXCEPT !.Name = "S2", !.Directory = "broken"],
    [NullOptions EXCEPT !.Name = "S2", !.Directory = "locked"] }

Renderer(p, o) ==
  /\ Begin(p)
  /\ req' = [req EXCEPT ![p] = [NullReq EXCEPT !.op = "Renderer", !.options = o]]
  /\ lv' = [lv EXCEPT ![p] = [NullLv EXCEPT !.opt = prepareOptions(o)]]
  /\ hist' = [hist EXCEPT ![p] = NullHist]
  /\ pc' = [pc EXCEPT ![p] = "po_rlock"]
  /\ UNCHANGED << Env, tplSets, tplSetOpts, opts, trees, lockW, lockR, lockWait, handlers, crashed >>

\* line 155: lock.RLock()
prepareOptions_RLock(p) ==
  /\ ~crashed /\ pc[p] = "po_rlock"
  /\ CanRLock
  /\ lockR' = lockR \cup {p}
  /\ pc' = [pc EXCEPT ![p] = "po_write"]
  /\ UNCHANGED << Env, tplSets, tplSetOpts, opts, trees, lockW, lockWait,
                  handlers, crashed, nreq, req, lv, sink, hist >>

\* line 158: tplSetOpts[opt.Name] = &opt, and line 156: the deferred
\* lock.RUnlock(); Renderer goes on to compile(opt)
prepareOptions_Write(p) ==
  /\ ~crashed /\ pc[p] = "po_write"
  /\ opts' = Append(opts, lv[p].opt)
  /\ tplSetOpts' = [tplSetOpts EXCEPT ![lv[p].opt.Name] = Len(opts) + 1]
  /\ lv' = [lv EXCEPT ![p].copt = Len(opts) + 1]
  /\ lockR' = lockR \ {p}
  /\ pc' = [pc EXCEPT ![p] = "c_build"]
  /\ UNCHANGED << Env, tplSets, trees, lockW, lockWait, handlers,
                  crashed, nreq, req, sink, hist >>

\* The pcs at which a worker is about to touch the map tplSetOpts.
OptsMapWriters == {"po_write"}
OptsMapReaders == {"rb_getopt", "stp_getopt"}

\* line 158 while another worker is in the same map: the shared lock excludes
\* neither a second writer nor the readers of lines 363 and 466, which take no
\* lock; the Go runtime stops the process with "concurrent map writes" /
\* "concurrent map read and map write" when it notices.
prepareOptions_MapFault(p) ==
  /\ ~crashed /\ pc[p] = "po_write"
  /\ \E q \in Procs \ {p} : pc[q] \in OptsMapWriters \cup OptsMapReaders
  /\ Panic(p, "concurrent map access")
  /\ UNCHANGED << Env, tplSets, tplSetOpts, opts, trees, lockW, lockR, lockWait, handlers, nreq, req, sink, hist >>

\* ----------------------------------------------------------------- compile
\* lines 178-217: read options.Directory, walk it, parse the files
compile_Build(p) ==
  /\ ~crashed /\ pc[p] = "c_build"
  /\ LET b == BuildTree(opts[lv[p].copt])
     IN  IF b.panic # ""
         THEN /\ Panic(p, b.panic)
              /\ UNCHANGED trees
         ELSE /\ trees' = Append(trees, b.tree)
              /\ lv' = [lv EXCEPT ![p].ct = Len(trees) + 1]
              /\ pc' = [pc EXCEPT ![p] = "c_lock"]
              /\ UNCHANGED crashed
  /\ UNCHANGED << Env, tplSets, tplSetOpts, opts, lockW, lockR, lockWait,
                  handlers, nreq, req, sink, hist >>

\* line 219: lock.Lock() is called: it returns at once when the lock is free,
\* and otherwise waits, letting no new reader in
compile_Lock(p) ==
  /\ ~crashed /\ pc[p] = "c_lock"
  /\ IF CanLock
     THEN /\ lockW' = p
          /\ pc' = [pc EXCEPT ![p] = "c_install"]
          /\ UNCHANGED lockWait
     ELSE /\ lockWait' = lockWait \cup {p}
          /\ pc' = [pc EXCEPT ![p] = "c_wait"]
          /\ UNCHANGED lockW
  /\ UNCHANGED << Env, tplSets, tplSetOpts, opts, trees, lockR, handlers,
                  crashed, nreq, req, lv, sink, hist >>

\* line 219: the waiting lock.Lock() returns
compile_LockWake(p) ==
  /\ ~crashed /\ pc[p] = "c_wait"
  /\ CanLock
  /\ lockW' = p
  /\ lockWait' = lockWait \ {p}
  /\ pc' = [pc EXCEPT ![p] = "c_install"]
  /\ UNCHANGED << Env, tplSets, tplSetOpts, opts, trees, lockR, handlers,
                  crashed, nreq, req, lv, sink, hist >>

\* line 222: tplSets[options.Name] = t; line 220: the deferred lock.Unlock();
\* and the return into the caller: Renderer (lines 234, 237: the handler closes
\* over opt and cs), renderBytes (line 368) or SetTemplatePath (line 469).
compile_Install(p) ==
  /\ ~crashed /\ pc[p] = "c_install"
  /\ tplSets' = [tplSets EXCEPT ![InstallKey(opts[lv[p].copt])] = lv[p].ct]
  /\ hist' = [hist EXCEPT ![p].installed = lv[p].ct]
  /\ lockW' = None
  /\ handlers' = IF req[p].op = "Renderer"
                 THEN handlers \cup { [Opt |-> lv[p].copt,
                                       CompiledCharset |-> prepareCharset(lv[p].opt.Charset)] }
                 ELSE handlers
  /\ pc' = [pc EXCEPT ![p] = IF req[p].op = "HTML" THEN "rb_lookup" ELSE "done"]
  /\ UNCHANGED << Env, tplSetOpts, opts, trees, lockR, lockWait,
                  crashed, nreq, req, lv, sink >>

\* ------------------------------------------------------------ HTML renders
\* Each worker's requests carry its own data and its own status.
DataOf(p) == IF p = "w1" THEN "d1" ELSE "d2"
StatusOf(p) == IF p = "w1" THEN 200 ELSE 404

\* The variadic htmlOpt: absent, or one HTMLOptions{Layout}.
NoOpt == [has |-> FALSE, Layout |-> << >>]
Opt(layout) == [has |-> TRUE, Layout |-> layout]

\* (template name, htmlOpt) of the calls to HTML and HTMLString
\* (none makes a template its own layout: that execution would never end)
HTMLInputs ==
  { << << "a" >>, NoOpt >>, << << "a" >>, Opt(<< >>) >>, << << "b" >>, Opt(<< "layout" >>) >>,
    << << "layout" >>, Opt(<< >>) >>, << << "nosuch" >>, Opt(<< "layout" >>) >> }

\* (set name, template name, htmlOpt) of the calls to HTMLSet and HTMLSetString
HTMLSetInputs ==
  { << "S2", << "a" >>, NoOpt >>, << "missing-set", << "a" >>, NoOpt >> }

\* The request enters renderBytes (lines 391-394, 415-416); whether it came in
\* through renderHTML or renderHTMLString matters only once renderBytes has
\* returned, and is drawn there.
EnterRender(p, h, setName, tplName, o) ==
  /\ Begin(p)
  /\ req' = [req EXCEPT ![p] = [NullReq EXCEPT !.op = "HTML", !.h = h,
                                  !.setName = setName, !.tplName = tplName,
                                  !.data = DataOf(p), !.hasOpt = o.has,
                                  !.optLayout = o.Layout]]
  /\ lv' = [lv EXCEPT ![p] = [NullLv EXCEPT !.tplName = tplName]]
  /\ hist' = [q \in Procs |->
                IF q = p
                THEN [NullHist EXCEPT !.overlap =
                        \E u \in Procs \ {p} : Rendering(u) /\ req[u].setName = setName]
                ELSE IF Rendering(q) /\ req[q].setName = setName
                     THEN [hist[q] EXCEPT !.overlap = TRUE]
                     ELSE hist[q]]
  /\ pc' = [pc EXCEPT ![p] = "rb_getopt"]
  /\ UNCHANGED << Env, tplSets, tplSetOpts, opts, trees, lockW, lockR, lockWait, handlers, crashed >>

\* HTML and HTMLString (lines 407-409, 423-425)
HTML(p, h, in) == EnterRender(p, h, DEFAULT_TPL_SET_NAME, in[1], in[2])

\* HTMLSet and HTMLSetString (lines 411-413, 427-429)
HTMLSet(p, h, in) == EnterRender(p, h, in[1], in[2], in[3])

\* (a render that recompiles whatever the mode)
ShouldRecompile_Always(env) == TRUE

\* line 364
ShouldRecompile(env) == env = DEV

\* lines 363-366: renderOpt := tplSetOpts[setName], read without the lock; in
\* development compile(renderOpt) follows and dereferences renderOpt at once.
renderBytes_GetOpt(p) ==
  /\ ~crashed /\ pc[p] = "rb_getopt"
  /\ LET renderOpt == tplSetOpts[req[p].setName]
     IN  IF ShouldRecompile(Env)
         THEN IF renderOpt = 0
              THEN Panic(p, "nil pointer dereference")
              ELSE /\ lv' = [lv EXCEPT ![p].renderOpt = renderOpt, ![p].copt = renderOpt]
                   /\ pc' = [pc EXCEPT ![p] = "c_build"]
                   /\ UNCHANGED crashed
         ELSE /\ lv' = [lv EXCEPT ![p].renderOpt = renderOpt]
              /\ pc' = [pc EXCEPT ![p] = "rb_lookup"]
              /\ UNCHANGED crashed
  /\ UNCHANGED << Env, tplSets, tplSetOpts, opts, trees, lockW, lockR, lockWait, handlers, nreq, req, sink, hist >>

\* lines 452-460: r.Opt is the configuration the handler was built with
prepareHTMLOptions(r, hasOpt, optLayout) ==
  IF hasOpt THEN optLayout ELSE opts[r.Opt].Layout

\* (a yield that executes the content template on no data)
addYield_NoData(t, tplName, data) ==
  [yield   |-> [bound |-> TRUE, t |-> t, tplName |-> tplName, data |-> ""],
   current |-> [bound |-> TRUE, t |-> 0, tplName |-> tplName, data |-> ""]]

\* (a yield that executes against the default set's tree, not the tree it is bound on)
addYield_DefaultTree(t, tplName, data) ==
  [yield   |-> [bound |-> TRUE, t |-> tplSets[DEFAULT_TPL_SET_NAME], tplName |-> tplName,
                data |-> data],
   current |-> [bound |-> TRUE, t |-> 0, tplName |-> tplName, data |-> ""]]

\* (an addYield that binds a tree's helpers once and leaves them alone after)
addYield_BindOnce(t, tplName, data) ==
  IF trees[t].funcs.yield.bound THEN trees[t].funcs
  ELSE [yield   |-> [bound |-> TRUE, t |-> t, tplName |-> tplName, data |-> data],
        current |-> [bound |-> TRUE, t |-> 0, tplName |-> tplName, data |-> ""]]

\* lines 348-360: the function table addYield leaves on tree t
addYield(t, tplName, data) ==
  [yield   |-> [bound |-> TRUE, t |-> t, tplName |-> tplName, data |-> data],
   current |-> [bound |-> TRUE, t |-> 0, tplName |-> tplName, data |-> ""]]

\* line 380: the template renderBytes executes
ExecutedName(layout, tplName) == IF Len(layout) > 0 THEN layout ELSE tplName

Frame(t, name, data) == [t |-> t, name |-> name, data |-> data, pos |-> 1, buf |-> << >>]

IsCall(tok) == tok \in {TokYield, TokCurrent}

RECURSIVE RunLocal(_)
\* ExecuteTemplate (line 345) on the stack st of templates being executed, up to
\* its next call of yield or current, or to its end.  Text and {{.}} go to the
\* buffer of the template they stand in; a template that yield executed hands
\* its buffer's text back to the layout (line 353).  None of this touches
\* anything another worker can see.
RunLocal(st) ==
  LET n    == Len(st)
      f    == st[n]
      body == trees[f.t].nodes[f.name]
  IN  IF f.pos > Len(body)
      THEN IF n = 1
           THEN [state |-> "done", stack |-> << >>, out |-> f.buf, err |-> ""]
           ELSE CHOOSE r \in { RunLocal(s2) :
                                 s2 \in { SubSeq(st, 1, n - 2) \o
                                          << [st[n-1] EXCEPT !.buf = @ \o f.buf,
                                                             !.pos = @ + 1] >> } } : TRUE
      ELSE LET tok == body[f.pos] IN
           IF IsCall(tok)
           THEN [state |-> "call", stack |-> st, out |-> << >>, err |-> ""]
           ELSE IF tok = TokFail
           THEN [state |-> "fail", stack |-> << >>, out |-> << >>, err |-> "no such template"]
           ELSE CHOOSE r \in { RunLocal(s2) :
                                 s2 \in { [st EXCEPT ![n].buf = @ \o (IF tok = TokDot
                                                                       THEN << f.data >>
                                                                       ELSE << tok >>),
                                                      ![n].pos = @ + 1] } } : TRUE

Failed(why) == [state |-> "fail", stack |-> << >>, out |-> << >>, err |-> why]

\* execute (lines 343-346) of template name of tree t, pushed on the stack st
execute(st, t, name, data) ==
  IF name \in DOMAIN trees[t].nodes
  THEN RunLocal(Append(st, Frame(t, name, data)))
  ELSE Failed("no such template")

\* (a renderBytes that returns an error without releasing the shared lock)
Proceed_KeepLockOnError(p, r, held) ==
  /\ lv' = [held EXCEPT ![p].stack = r.stack, ![p].out = r.out, ![p].err = r.err]
  /\ pc' = [pc EXCEPT ![p] = IF r.state = "call" THEN "ex" ELSE "rh_respond"]
  /\ lockR' = IF r.state \in {"call", "fail"} THEN lockR \cup {p} ELSE lockR \ {p}

\* renderBytes has the result r of the execution so far: it goes on executing,
\* or returns (lines 383-388) through the deferred lock.RUnlock() of line 369.
Proceed(p, r, held) ==
  /\ lv' = [held EXCEPT ![p].stack = r.stack, ![p].out = r.out, ![p].err = r.err]
  /\ pc' = [pc EXCEPT ![p] = IF r.state = "call" THEN "ex" ELSE "rh_respond"]
  /\ lockR' = IF r.state = "call" THEN lockR \cup {p} ELSE lockR \ {p}

\* lines 368-383: lock.RLock(), the lookup, the layout decision, and execute up
\* to the first call of yield or current.
renderBytes_Lookup(p) ==
  /\ ~crashed /\ pc[p] = "rb_lookup"
  /\ CanRLock
  /\ LET t      == tplSets[req[p].setName]
         layout == prepareHTMLOptions(req[p].h, req[p].hasOpt, req[p].optLayout)
         name   == ExecutedName(layout, req[p].tplName)
     IN  IF t = 0
         THEN /\ Proceed(p, Failed("undefined"), lv)
              /\ UNCHANGED << trees, hist >>
         ELSE /\ trees' = IF Len(layout) > 0
                          THEN [trees EXCEPT ![t].funcs =
                                  addYield(t, req[p].tplName, req[p].data)]
                          ELSE trees
              /\ hist' = [hist EXCEPT ![p].acquired = @ + 1]
              /\ Proceed(p, execute(<< >>, t, name, req[p].data),
                         [lv EXCEPT ![p].t = t, ![p].layout = layout, ![p].tplName = name])
  /\ UNCHANGED << Env, tplSets, tplSetOpts, opts, lockW, lockWait, handlers,
                  crashed, nreq, req, sink >>

\* The template being executed calls yield or current, looked up in the tree's
\* function table at the time of the call, and runs on to its next call.
execute_Step(p) ==
  /\ ~crashed /\ pc[p] = "ex"
  /\ LET st  == lv[p].stack
         n   == Len(st)
         f   == st[n]
         tok == trees[f.t].nodes[f.name][f.pos]
         fn  == IF tok = TokYield THEN trees[f.t].funcs.yield
                ELSE trees[f.t].funcs.current
     IN  IF tok = TokYield
         THEN /\ hist' = [hist EXCEPT ![p].yieldCalls = Append(@, fn),
                                      ![p].acquired = IF fn.bound THEN @ + 1 ELSE @]
              /\ IF ~fn.bound
                 THEN \* lines 53-55
                      Proceed(p, Failed("yield called with no layout defined"), lv)
                 ELSE \* lines 350-354
                      Proceed(p, execute(st, fn.t, fn.tplName, fn.data), lv)
         ELSE \* lines 56-58, 355-357
              /\ hist' = [hist EXCEPT ![p].curCalls = Append(@, fn)]
              /\ Proceed(p, RunLocal([st EXCEPT ![n].buf = @ \o (IF fn.bound THEN fn.tplName
                                                                  ELSE << >>),
                                                ![n].pos = @ + 1]), lv)
  /\ UNCHANGED << Env, tplSets, tplSetOpts, opts, trees, lockW, lockWait,
                  handlers, crashed, nreq, req, sink >>

Event(e, header, code, bytes) == [e |-> e, header |-> header, code |-> code, bytes |-> bytes]

\* (an error reply sent as an HTML page)
HttpError_AsHTML(msg, code) ==
  << Event("Header.Set", ContentHTML \o prepareCharset(""), 0, << >>),
     Event("WriteHeader", << >>, code, << >>),
     Event("Write", << >>, 0, << msg, "\n" >>) >>

\* net/http.Error(w, msg, code): the plain-text content type, the status line,
\* and fmt.Fprintln(w, msg)
HttpError(msg, code) ==
  << Event("Header.Set", << "text/plain", "; charset=", "utf-8" >>, 0, << >>),
     Event("WriteHeader", << >>, code, << >>),
     Event("Write", << >>, 0, << msg, "\n" >>) >>

\* (a renderHTML that writes the status line before it sets the header, and
\* releases the buffer before it copies it)
RespondEvents_Disordered(r, status, out) ==
  << Event("WriteHeader", << >>, status, << >>),
     Event("Header.Set", opts[r.Opt].HTMLContentType \o r.CompiledCharset, 0, << >>),
     Event("bufpool.Put", << >>, 0, << >>),
     Event("io.Copy", << >>, 0, out) >>

\* lines 400-404, by renderer r
RespondEvents(r, status, out) ==
  << Event("Header.Set", opts[r.Opt].HTMLContentType \o r.CompiledCharset, 0, << >>),
     Event("WriteHeader", << >>, status, << >>),
     Event("io.Copy", << >>, 0, out),
     Event("bufpool.Put", << >>, 0, << >>) >>

RECURSIVE Apply(_, _, _)
\* The sink s after the events evs[i..]
Apply(s, evs, i) ==
  IF i > Len(evs) THEN s
  ELSE LET e  == evs[i]
           s1 == CASE e.e = "Header.Set" -> [s EXCEPT !.header = e.header]
                   [] e.e = "WriteHeader" -> [s EXCEPT !.status = IF @ = 0 THEN e.code ELSE @]
                   [] e.e \in {"io.Copy", "Write"} -> [s EXCEPT !.body = @ \o e.bytes]
                   [] OTHER -> s
       IN  CHOOSE r \in { Apply(s2, evs, i + 1) :
                            s2 \in { [s1 EXCEPT !.ev = Append(@, e)] } } : TRUE

CountOf(evs, name) == Cardinality({ i \in 1..Len(evs) : evs[i].e = name })

\* renderHTML after renderBytes has returned (lines 395-404)
renderHTML(p) ==
  /\ ~crashed /\ pc[p] = "rh_respond"
  /\ req' = [req EXCEPT ![p].toSink = TRUE, ![p].status = StatusOf(p)]
  /\ LET evs == IF lv[p].err # ""
                THEN HttpError(lv[p].err, StatusInternalServerError)
                ELSE RespondEvents(req[p].h, StatusOf(p), lv[p].out)
         puts == CountOf(evs, "bufpool.Put")
     IN  /\ sink' = [sink EXCEPT ![p] = Apply(@, evs, 1)]
         /\ hist' = [hist EXCEPT ![p].released = @ + puts]
  /\ lv' = [lv EXCEPT ![p].copt = 0, ![p].ct = 0, ![p].renderOpt = 0]
  /\ pc' = [pc EXCEPT ![p] = "done"]
  /\ UNCHANGED << Env, tplSets, tplSetOpts, opts, trees, lockW, lockR, lockWait,
                  handlers, crashed, nreq >>

\* renderHTMLString after renderBytes has returned (lines 416-420)
renderHTMLString(p) ==
  /\ ~crashed /\ pc[p] = "rh_respond"
  /\ req' = [req EXCEPT ![p].toSink = FALSE]
  /\ lv' = [lv EXCEPT ![p].result = IF lv[p].err # "" THEN << >> ELSE lv[p].out,
                      ![p].copt = 0, ![p].ct = 0, ![p].renderOpt = 0]
  /\ pc' = [pc EXCEPT ![p] = "done"]
  /\ UNCHANGED << Env, tplSets, tplSetOpts, opts, trees, lockW, lockR, lockWait, handlers, crashed, nreq, sink, hist >>

\* --------------------------------------------------------- SetTemplatePath
StpInputs == { << "", "alt" >>, << "", "absent" >>, << "S2", "templates" >> }

SetTemplatePath(p, setName, dir) ==
  /\ Begin(p)
  /\ handlers # {}
  /\ req' = [req EXCEPT ![p] = [NullReq EXCEPT !.op = "SetTemplatePath",
                                  !.setName = IF Len(setName) = 0
                                              THEN DEFAULT_TPL_SET_NAME ELSE setName,
                                  !.dir = dir]]
  /\ lv' = [lv EXCEPT ![p] = NullLv]
  /\ hist' = [hist EXCEPT ![p] = NullHist]
  /\ pc' = [pc EXCEPT ![p] = "stp_getopt"]
  /\ UNCHANGED << Env, tplSets, tplSetOpts, opts, trees, lockW, lockR, lockWait, handlers, crashed >>

\* line 466: opt := tplSetOpts[setName], read without the lock; a nil opt is
\* dereferenced by line 467
SetTemplatePath_GetOpt(p) ==
  /\ ~crashed /\ pc[p] = "stp_getopt"
  /\ LET opt == tplSetOpts[req[p].setName]
     IN  IF opt = 0
         THEN Panic(p, "nil pointer dereference")
         ELSE /\ lv' = [lv EXCEPT ![p].copt = opt]
              /\ pc' = [pc EXCEPT ![p] = "stp_setdir"]
              /\ UNCHANGED crashed
  /\ UNCHANGED << Env, tplSets, tplSetOpts, opts, trees, lockW, lockR, lockWait, handlers, nreq, req, sink, hist >>

\* line 467: opt.Directory = dir, written without the lock; compile(opt) follows
SetTemplatePath_SetDir(p) ==
  /\ ~crashed /\ pc[p] = "stp_setdir"
  /\ opts' = [opts EXCEPT ![lv[p].copt].Directory = req[p].dir]
  /\ pc' = [pc EXCEPT ![p] = "c_build"]
  /\ UNCHANGED << Env, tplSets, tplSetOpts, trees, lockW, lockR, lockWait,
                  handlers, crashed, nreq, req, lv, sink, hist >>

\* ------------------------------------------------------------------- runs
Next ==
  \E p \in Procs :
    \/ \E o \in RendererInputs : Renderer(p, o)
    \/ prepareOptions_RLock(p)
    \/ prepareOptions_Write(p)
    \/ prepareOptions_MapFault(p)
    \/ compile_Build(p)
    \/ compile_Lock(p)
    \/ compile_LockWake(p)
    \/ compile_Install(p)
    \/ \E h \in handlers, in \in HTMLInputs : HTML(p, h, in)
    \/ \E h \in handlers, in \in HTMLSetInputs : HTMLSet(p, h, in)
    \/ renderBytes_GetOpt(p)
    \/ renderBytes_Lookup(p)
    \/ execute_Step(p)
    \/ renderHTML(p)
    \/ renderHTMLString(p)
    \/ \E in \in StpInputs : SetTemplatePath(p, in[1], in[2])
    \/ SetTemplatePath_GetOpt(p)
    \/ SetTemplatePath_SetDir(p)

Spec == Init /\ [][Next]_vars

\* ------------------------------------------------ the calls that use the lock
\* Renderer, HTML and SetTemplatePath over the inputs that tell their lock
\* paths apart: a compile that installs and one that panics, a render that
\* runs a yield to its end and one whose yield fails, a path override.
LockRendererInputs ==
  { [NullOptions EXCEPT !.Name = "S2", !.Directory = "alt"],
    [NullOptions EXCEPT !.Name = "S2", !.Directory = "broken"] }
LockHTMLInputs ==
  { << << "b" >>, Opt(<< "layout" >>) >>, << << "nosuch" >>, Opt(<< "layout" >>) >> }
LockStpInputs == { << "", "alt" >> }

NextLocks ==
  \E p \in Procs :
    \/ \E o \in LockRendererInputs : Renderer(p, o)
    \/ prepareOptions_RLock(p)
    \/ prepareOptions_Write(p)
    \/ prepareOptions_MapFault(p)
    \/ compile_Build(p)
    \/ compile_Lock(p)
    \/ compile_LockWake(p)
    \/ compile_Install(p)
    \/ \E h \in handlers, in \in LockHTMLInputs : HTML(p, h, in)
    \/ renderBytes_GetOpt(p)
    \/ renderBytes_Lookup(p)
    \/ execute_Step(p)
    \/ renderHTML(p)
    \/ \E in \in LockStpInputs : SetTemplatePath(p, in[1], in[2])
    \/ SetTemplatePath_GetOpt(p)
    \/ SetTemplatePath_SetDir(p)

\* The Go scheduler runs a goroutine that can run: a step that can be taken is
\* taken.
FairSpec == Init /\ [][NextLocks]_vars /\ WF_vars(NextLocks)

\* ------------------------------------------- JSON, XML, RawData, RenderData
ContentJSON == << "application/json" >>
ContentXML == << "text/xml" >>
ContentBinary == << "application/octet-stream" >>

\* What a caller hands to JSON and XML (a value) and to the data calls (bytes);
\* encoding/json and encoding/xml refuse a channel.
Values == {"v", "chan"}
Marshalable(v) == v # "chan"

\* json.Marshal / json.MarshalIndent, xml.Marshal / xml.MarshalIndent
Marshal(kind, v, indent) == << kind, IF indent THEN "indented" ELSE "compact", v >>

Write(bytes) == Event("Write", << >>, 0, bytes)

\* (a JSON that sends the prefix ahead of the status line)
JSONEvents_PrefixFirst(r, status, v) ==
  (IF Len(opts[r.Opt].PrefixJSON) > 0 THEN << Write(opts[r.Opt].PrefixJSON) >> ELSE << >>)
  \o << Event("Header.Set", ContentJSON \o r.CompiledCharset, 0, << >>),
        Event("WriteHeader", << >>, status, << >>),
        Write(Marshal("json", v, opts[r.Opt].IndentJSON)) >>

\* lines 269-289, by renderer r
JSONEvents(r, status, v) ==
  IF ~Marshalable(v)
  THEN HttpError("json: unsupported type", 500)
  ELSE << Event("Header.Set", ContentJSON \o r.CompiledCharset, 0, << >>),
          Event("WriteHeader", << >>, status, << >>) >>
       \o (IF Len(opts[r.Opt].PrefixJSON) > 0 THEN << Write(opts[r.Opt].PrefixJSON) >>
           ELSE << >>)
       \o << Write(Marshal("json", v, opts[r.Opt].IndentJSON)) >>

\* lines 305-325
XMLEvents(r, status, v) ==
  IF ~Marshalable(v)
  THEN HttpError("xml: unsupported type", 500)
  ELSE << Event("Header.Set", ContentXML \o r.CompiledCharset, 0, << >>),
          Event("WriteHeader", << >>, status, << >>) >>
       \o (IF Len(opts[r.Opt].PrefixXML) > 0 THEN << Write(opts[r.Opt].PrefixXML) >>
           ELSE << >>)
       \o << Write(Marshal("xml", v, opts[r.Opt].IndentXML)) >>

\* (a data that sets its content type whatever the sink holds)
dataEvents_Always(header, status, contentType, v) ==
  << Event("Header.Set", contentType, 0, << >>),
     Event("WriteHeader", << >>, status, << >>),
     Write(v) >>

\* lines 327-333, on a sink whose Content-Type is header
dataEvents(header, status, contentType, v) ==
  (IF Len(header) = 0 THEN << Event("Header.Set", contentType, 0, << >>) >> ELSE << >>)
  \o << Event("WriteHeader", << >>, status, << >>), Write(v) >>

\* A call that runs from its start to its return on the request's own sink.
SinkCall(p, op, h, v, upstream, evs) ==
  /\ BeginCall(p)
  /\ req' = [req EXCEPT ![p] = [NullReq EXCEPT !.op = op, !.h = h, !.v = v,
                                  !.upstream = upstream, !.toSink = TRUE,
                                  !.status = StatusOf(p)]]
  /\ sink' = [sink EXCEPT ![p] = Apply([NullSink EXCEPT !.header = upstream], evs, 1)]
  /\ lv' = [lv EXCEPT ![p] = NullLv]
  /\ hist' = [hist EXCEPT ![p] = NullHist]
  /\ pc' = [pc EXCEPT ![p] = "done"]
  /\ UNCHANGED << Env, tplSets, tplSetOpts, opts, trees, lockW, lockR, lockWait,
                  handlers, crashed >>

JSON(p, h, v) == SinkCall(p, "JSON", h, v, << >>, JSONEvents(h, StatusOf(p), v))

XML(p, h, v) == SinkCall(p, "XML", h, v, << >>, XMLEvents(h, StatusOf(p), v))

\* The Content-Type upstream code has put on the sink before the call: none or one.
Upstreams == { << >>, << "image/png" >> }

\* lines 335-337
RawData(p, h, upstream, v) ==
  SinkCall(p, "RawData", h, v, upstream,
           dataEvents(upstream, StatusOf(p), ContentBinary, << v >>))

\* lines 339-341
RenderData(p, h, upstream, v) ==
  SinkCall(p, "RenderData", h, v, upstream,
           dataEvents(upstream, StatusOf(p), ContentHTML, << v >>))

\* The second set an application registers when it uses every option.
RichOptions ==
  prepareOptions([NullOptions EXCEPT !.Name = "S2", !.Directory = "alt",
                                     !.Charset = "ISO-8859-1",
                                     !.IndentJSON = TRUE, !.IndentXML = TRUE,
                                     !.PrefixJSON = << ")]}',\n" >>,
                                     !.PrefixXML = << "<?xml version='1.0'?>" >>,
                                     !.HTMLContentType = << "application/xhtml+xml" >>])

\* The process once its startup has made two Renderer calls, one after the
\* other: for the default set, and for S2 with every option set.
InitData ==
  /\ Env \in {DEV, PROD}
  /\ opts = << StartupOptions, RichOptions >>
  /\ tplSetOpts = [n \in SetNames |-> CASE n = StartupOptions.Name -> 1
                                        [] n = RichOptions.Name -> 2
                                        [] OTHER -> 0]
  /\ trees = << BuildTree(StartupOptions).tree, BuildTree(RichOptions).tree >>
  /\ tplSets = [n \in SetNames |-> CASE n = InstallKey(StartupOptions) -> 1
                                     [] n = InstallKey(RichOptions) -> 2
                                     [] OTHER -> 0]
  /\ lockW = None
  /\ lockR = {}
  /\ lockWait = {}
  /\ handlers = { [Opt |-> 1, CompiledCharset |-> prepareCharset(StartupOptions.Charset)],
                  [Opt |-> 2, CompiledCharset |-> prepareCharset(RichOptions.Charset)] }
  /\ crashed = FALSE
  /\ nreq = 0
  /\ pc = [p \in Procs |-> "idle"]
  /\ req = [p \in Procs |-> NullReq]
  /\ lv = [p \in Procs |-> NullLv]
  /\ sink = [p \in Procs |-> NullSink]
  /\ hist = [p \in Procs |-> NullHist]

\* The calls that touch nothing but the request's sink.
NextData ==
  \E p \in Procs :
    \/ \E h \in handlers, v \in Values : JSON(p, h, v)
    \/ \E h \in handlers, v \in Values : XML(p, h, v)
    \/ \E h \in handlers, u \in Upstreams, v \in Values : RawData(p, h, u, v)
    \/ \E h \in handlers, u \in Upstreams, v \in Values : RenderData(p, h, u, v)

SpecData == InitData /\ [][NextData]_vars

\* ------------------------------------------------- compile, on its own
\* Renderer calls, one after another, over directories and extension lists.
CompileInputs ==
  { [NullOptions EXCEPT !.Name = "S2", !.Directory = d, !.Extensions = e] :
      d \in {"templates", "deep", "dotted"},
      e \in { << >>, << << ".", "b", ".", "tmpl" >> >>,
              << << ".", "TMPL" >>, << ".", "html" >> >> } }

NextCompile ==
  \/ \E o \in CompileInputs : Renderer("w1", o)
  \/ prepareOptions_RLock("w1")
  \/ prepareOptions_Write("w1")
  \/ compile_Build("w1")
  \/ compile_Lock("w1")
  \/ compile_Install("w1")

SpecCompile == Init /\ [][NextCompile]_vars

\* ================================================================ properties
IsRender(p) == req[p].op = "HTML"
\* renderBytes of p has looked its tree up and found one
HasTree(p) == IsRender(p) /\ lv[p].t # 0
Range(q) == { q[i] : i \in 1..Len(q) }

RECURSIVE Expand(_, _, _, _)
\* The text of a template body on data, with y for each {{yield}} and c for
\* each {{current}}.
Expand(body, data, y, c) ==
  IF Len(body) = 0 THEN << >>
  ELSE (CASE Head(body) = TokYield -> y
          [] Head(body) = TokCurrent -> c
          [] Head(body) = TokDot -> << data >>
          [] OTHER -> << Head(body) >>) \o Expand(Tail(body), data, y, c)

\* ----------------------------------------------------------------------- C1
\* C1 (as claimed): in either mode, an HTML render naming a set that was never
\* registered does not panic; when it returns it reports the "undefined" error,
\* and its sink-writing variant has written status 500.
C1_UnknownSetReported ==
  \A p \in Procs :
    (IsRender(p) /\ req[p].setName = "missing-set") =>
       /\ pc[p] # "panicked"
       /\ pc[p] = "done" =>
            /\ lv[p].err = "undefined"
            /\ req[p].toSink => sink[p].status = StatusInternalServerError

\* ----------------------------------------------------------------------- C2
\* C2: a render with a non-empty resolved layout that overlaps no other render
\* on its set executes the layout; every yield it calls executes the content
\* template of this call, on this call's data, in this call's tree; every
\* current it calls returns this call's content name; and its output is the
\* layout's text with the content's text in place of yield.
C2_LayoutComposition ==
  \A p \in Procs :
    (HasTree(p) /\ Len(lv[p].layout) > 0 /\ ~hist[p].overlap) =>
       /\ lv[p].tplName = lv[p].layout
       /\ \A i \in 1..Len(lv[p].stack) :
            lv[p].stack[i].name = IF i = 1 THEN lv[p].layout ELSE req[p].tplName
       /\ \A c \in Range(hist[p].yieldCalls) :
            c = [bound |-> TRUE, t |-> lv[p].t, tplName |-> req[p].tplName,
                 data |-> req[p].data]
       /\ \A c \in Range(hist[p].curCalls) : c.bound /\ c.tplName = req[p].tplName
       /\ (pc[p] = "done" /\ lv[p].err = "") =>
            LET nodes == trees[lv[p].t].nodes IN
            lv[p].out = Expand(nodes[lv[p].layout], req[p].data,
                               Expand(nodes[req[p].tplName], req[p].data, << >>, req[p].tplName),
                               req[p].tplName)

C2_Witness ==
  \E p \in Procs :
    /\ HasTree(p) /\ pc[p] = "done" /\ ~hist[p].overlap
    /\ req[p].tplName = << "a" >> /\ lv[p].layout = << "layout" >>
    /\ Len(hist[p].yieldCalls) = 1 /\ Len(hist[p].curCalls) = 1
    /\ lv[p].out = << "<html>", "A:", req[p].data, "a", "</html>" >>

\* ----------------------------------------------------------------------- C3
\* C3 (as claimed): a render whose resolved layout is empty, overlapping no
\* other render on its set, executes the requested template, and every yield it
\* calls is the inert one (it fails) and every current the inert one ("").
C3_InertWithoutLayout ==
  \A p \in Procs :
    (HasTree(p) /\ Len(lv[p].layout) = 0 /\ ~hist[p].overlap) =>
       /\ lv[p].tplName = req[p].tplName
       /\ \A c \in Range(hist[p].yieldCalls) : ~c.bound
       /\ \A c \in Range(hist[p].curCalls) : ~c.bound
       /\ Len(hist[p].yieldCalls) > 0 =>
            lv[p].err = "yield called with no layout defined"

BeingBuilt == { lv[q].ct : q \in { u \in Procs : pc[u] \in {"c_lock", "c_wait", "c_install"} } }

\* C5: whatever runs beside it, a render executes its layout and its yielded
\* content against the one tree it looked up; that tree is no tree still being
\* built, it holds exactly the templates of the directory it was compiled from,
\* and it is among the trees compiled for the render's set name.
C5_OneWholeTree ==
  \A p \in Procs :
    HasTree(p) =>
       /\ \A i \in 1..Len(lv[p].stack) : lv[p].stack[i].t = lv[p].t
       /\ \A c \in Range(hist[p].yieldCalls) : c.bound => c.t = lv[p].t
       /\ lv[p].t \notin BeingBuilt
       /\ trees[lv[p].t].nodes =
            BuildTree([StartupOptions EXCEPT !.Directory = trees[lv[p].t].dir]).tree.nodes
       /\ pc[p] = "ex" => tplSets[req[p].setName] = lv[p].t

C5_Witness ==
  \E p, q \in Procs :
    /\ HasTree(p) /\ pc[p] = "ex" /\ Len(lv[p].stack) = 2
    /\ req[q].op = "SetTemplatePath" /\ req[q].setName = req[p].setName
    /\ pc[q] = "c_wait" /\ lv[q].ct # lv[p].t

\* ----------------------------------------------------------------------- C6
\* Worker p takes the step.
StepOf(p) == pc'[p] # pc[p] \/ lv'[p] # lv[p]

\* C6: a render that has got as far as its lookup has installed a tree under
\* its set name in this call if and only if the mode is development; and in
\* production no step of a render changes the tree registry, the configuration
\* registry or a stored configuration.
C6_RecompileIffDevelopment ==
  /\ [](\A p \in Procs :
          (IsRender(p) /\ pc[p] \in {"ex", "rh_respond", "done"}) =>
             /\ hist[p].installed # 0 <=> Env = DEV
             /\ hist[p].installed # 0 => hist[p].installed \in 1..Len(trees))
  /\ [][\A p \in Procs :
          (IsRender(p) /\ StepOf(p) /\ Env # DEV) =>
             tplSets' = tplSets /\ tplSetOpts' = tplSetOpts /\ opts' = opts]_vars

C6_Witness ==
  \E p \in Procs :
    /\ HasTree(p) /\ pc[p] = "done" /\ Env = DEV /\ lv[p].err = ""
    /\ hist[p].installed # 0 /\ lv[p].t = hist[p].installed

\* ----------------------------------------------------------------------- C7
\* Every file of dir that compile would parse can be read and parses.
FilesGood(dir, options) ==
  \A i \in 1..Len(DirEntries(dir)) :
    LET e == DirEntries(dir)[i] IN
    MatchingExtension(getExt(e.rel), options.Extensions) # 0 =>
       ~e.isDir /\ e.readable /\ e.parses

\* C7 (as claimed): a tree is in the registry only if its compilation
\* succeeded: its directory could be walked (it exists) and every matching
\* file in it could be read and parsed.
C7_InstalledOnlyOnSuccess ==
  \A n \in SetNames :
    tplSets[n] # 0 =>
       /\ DirExists(trees[tplSets[n]].dir)
       /\ FilesGood(trees[tplSets[n]].dir, opts[tplSetOpts[n]])

\* ----------------------------------------------------------------------- C8
\* C8 (as claimed): of a SetTemplatePath call on set s with directory d, the
\* step that stores the directory changes nothing but the Directory of s's
\* configuration, and the step that installs changes nothing but s's tree,
\* which becomes the compilation of d.
C8_PathOverrideFrame ==
  [][\A p \in Procs :
       (req[p].op = "SetTemplatePath" /\ StepOf(p)) =>
          LET s == req[p].setName IN
          /\ tplSetOpts' = tplSetOpts
          /\ \A n \in SetNames \ {s} : tplSets'[n] = tplSets[n]
          /\ \A i \in 1..Len(opts) :
               opts'[i] = IF i = tplSetOpts[s] /\ pc[p] = "stp_setdir"
                          THEN [opts[i] EXCEPT !.Directory = req[p].dir]
                          ELSE opts[i]
          /\ pc'[p] = "done" =>
               /\ trees[tplSets'[s]].dir = req[p].dir
               /\ trees[tplSets'[s]].nodes =
                    BuildTree([opts[tplSetOpts[s]] EXCEPT !.Directory = req[p].dir]).tree.nodes
          /\ pc'[p] # "done" => tplSets'[s] = tplSets[s]]_vars

\* ----------------------------------------------------------------------- C9
\* C9 (as claimed): the layout a render uses is the override's when one is
\* given, and otherwise the layout configured for the set it renders.
C9_LayoutOfRenderedSet ==
  \A p \in Procs :
    HasTree(p) =>
       lv[p].layout = IF req[p].hasOpt THEN req[p].optLayout
                      ELSE opts[tplSetOpts[req[p].setName]].Layout

\* ---------------------------------------------------------------------- C10
\* C10: until renderBytes has returned, a render has done nothing to its sink;
\* a successful html/htmlSet has then done exactly this, in this order: set
\* Content-Type to the HTML content type plus the charset suffix, written the
\* caller's status, copied the rendered bytes, returned the buffer to the pool;
\* so the release is its last use of the buffer.
C10_RespondOrder ==
  \A p \in Procs :
    IsRender(p) =>
       /\ pc[p] # "done" => sink[p] = NullSink
       /\ (pc[p] = "done" /\ req[p].toSink /\ lv[p].err = "") =>
            /\ Len(sink[p].ev) = 4
            /\ sink[p].ev[1].e = "Header.Set"
            /\ sink[p].ev[1].header = << "text/html", "; charset=", "UTF-8" >>
            /\ sink[p].ev[2].e = "WriteHeader" /\ sink[p].ev[2].code = StatusOf(p)
            /\ sink[p].ev[3].e = "io.Copy" /\ sink[p].ev[3].bytes = lv[p].out
            /\ sink[p].ev[4].e = "bufpool.Put"
            /\ sink[p].header = << "text/html", "; charset=", "UTF-8" >>
            /\ sink[p].status = StatusOf(p)
            /\ sink[p].body = lv[p].out
            /\ hist[p].released = 1

C10_Witness ==
  \E p \in Procs :
    /\ IsRender(p) /\ pc[p] = "done" /\ req[p].toSink /\ lv[p].err = ""
    /\ sink[p].status = 404
    /\ sink[p].body = << "<html>", "B:", "b", "b", "</html>" >>

\* ---------------------------------------------------------------------- C11
\* C11: when html/htmlSet has returned from a render that failed (no tree, or
\* an execution error, also one inside the yielded content), the sink has
\* received exactly http.Error's reply: a plain-text content type, status 500
\* and the error's text as a line; not the caller's status, not the HTML
\* content type, no byte of template output; and the call holds no lock and has
\* not panicked.
C11_ErrorReply ==
  \A p \in Procs :
    (IsRender(p) /\ pc[p] = "done" /\ req[p].toSink /\ lv[p].err # "") =>
       /\ Len(sink[p].ev) = 3
       /\ sink[p].ev[1].e = "Header.Set"
       /\ sink[p].ev[1].header = << "text/plain", "; charset=", "utf-8" >>
       /\ sink[p].ev[2].e = "WriteHeader"
       /\ sink[p].ev[2].code = StatusInternalServerError
       /\ sink[p].ev[3].e = "Write" /\ sink[p].ev[3].bytes = << lv[p].err, "\n" >>
       /\ sink[p].status = StatusInternalServerError /\ sink[p].status # StatusOf(p)
       /\ sink[p].header # opts[req[p].h.Opt].HTMLContentType \o req[p].h.CompiledCharset
       /\ sink[p].body = << lv[p].err, "\n" >>
       /\ lv[p].out = << >>
       /\ hist[p].released = 0
       /\ p \notin lockR /\ lockW # p

\* w1's render failed inside the yielded content; w2's render, begun after it
\* on the same set, succeeded.
C11_Witness ==
  /\ IsRender("w1") /\ pc["w1"] = "done" /\ req["w1"].toSink
  /\ req["w1"].tplName = << "nosuch" >> /\ Len(hist["w1"].yieldCalls) = 1
  /\ lv["w1"].err = "no such template" /\ sink["w1"].status = StatusInternalServerError
  /\ IsRender("w2") /\ pc["w2"] = "done" /\ req["w2"].toSink
  /\ req["w2"].setName = req["w1"].setName
  /\ ~hist["w1"].overlap /\ ~hist["w2"].overlap
  /\ lv["w2"].err = "" /\ sink["w2"].status = 404
  /\ sink["w2"].body = << "<html>", "A:", "d2", "a", "</html>" >>

\* ---------------------------------------------------------------------- C12
\* The charset suffix configured for the handler h, UTF-8 when none is.
SuffixOf(h) ==
  << "; charset=", IF opts[h.Opt].Charset # "" THEN opts[h.Opt].Charset ELSE "UTF-8" >>

\* C12: a JSON (XML) call on a value that marshals has done to the sink, in
\* this order and nothing else: set Content-Type to the JSON (XML) media type
\* plus the charset suffix, written the status line, written the configured
\* prefix when one is configured, written the marshaled body.
C12_MarshalOrder ==
  \A p \in Procs :
    (req[p].op \in {"JSON", "XML"} /\ pc[p] = "done" /\ Marshalable(req[p].v)) =>
       LET o      == opts[req[p].h.Opt]
           isJ    == req[p].op = "JSON"
           media  == IF isJ THEN "application/json" ELSE "text/xml"
           prefix == IF isJ THEN o.PrefixJSON ELSE o.PrefixXML
           body   == IF isJ THEN Marshal("json", req[p].v, o.IndentJSON)
                     ELSE Marshal("xml", req[p].v, o.IndentXML)
           ev     == sink[p].ev
       IN  /\ Len(ev) = IF Len(prefix) > 0 THEN 4 ELSE 3
           /\ ev[1].e = "Header.Set" /\ ev[1].header = << media >> \o SuffixOf(req[p].h)
           /\ ev[2].e = "WriteHeader" /\ ev[2].code = StatusOf(p)
           /\ Len(prefix) > 0 => ev[3].e = "Write" /\ ev[3].bytes = prefix
           /\ ev[Len(ev)].e = "Write" /\ ev[Len(ev)].bytes = body
           /\ sink[p].status = StatusOf(p)
           /\ sink[p].body = prefix \o body

C12_Witness ==
  \E p, q \in Procs :
    /\ req[p].op = "JSON" /\ pc[p] = "done"
    /\ sink[p].body = << ")]}',\n", "json", "indented", "v" >>
    /\ req[q].op = "XML" /\ pc[q] = "done"
    /\ Len(sink[q].ev) = 3 /\ sink[q].body = << "xml", "compact", "v" >>

\* ---------------------------------------------------------------------- C13
\* C13 (as claimed): every Content-Type a rendering call sets on the sink ends
\* with the charset suffix of its handler, for JSON, XML, RawData and
\* RenderData alike.
C13_CharsetOnEveryContentType ==
  \A p \in Procs :
    (pc[p] = "done" /\ req[p].op \in {"JSON", "XML", "RawData", "RenderData"}
       /\ (req[p].op \in {"JSON", "XML"} => Marshalable(req[p].v))) =>
       \A i \in 1..Len(sink[p].ev) :
         sink[p].ev[i].e = "Header.Set" =>
            LET hd == sink[p].ev[i].header IN
            Len(hd) >= 3 /\ SubSeq(hd, Len(hd) - 1, Len(hd)) = SuffixOf(req[p].h)

\* ---------------------------------------------------------------------- C14
\* C14: RawData (RenderData) sets Content-Type, to the octet-stream (HTML)
\* media type, only when the sink holds none at the call; a Content-Type that
\* upstream code set is still there afterwards; either way the status line is
\* written next and then the given bytes, unchanged.
C14_DataDefaultsOnly ==
  \A p \in Procs :
    (req[p].op \in {"RawData", "RenderData"} /\ pc[p] = "done") =>
       LET def == IF req[p].op = "RawData" THEN << "application/octet-stream" >>
                  ELSE << "text/html" >>
           ev  == sink[p].ev
           n   == Len(ev)
       IN  /\ sink[p].header = IF req[p].upstream = << >> THEN def ELSE req[p].upstream
           /\ n = IF req[p].upstream = << >> THEN 3 ELSE 2
           /\ req[p].upstream = << >> => ev[1].e = "Header.Set" /\ ev[1].header = def
           /\ ev[n-1].e = "WriteHeader" /\ ev[n-1].code = StatusOf(p)
           /\ ev[n].e = "Write" /\ ev[n].bytes = << req[p].v >>
           /\ sink[p].status = StatusOf(p)
           /\ sink[p].body = << req[p].v >>

C14_Witness ==
  \E p, q \in Procs :
    /\ req[p].op = "RawData" /\ pc[p] = "done" /\ req[p].upstream = << "image/png" >>
    /\ sink[p].header = << "image/png" >> /\ Len(sink[p].ev) = 2
    /\ req[q].op = "RenderData" /\ pc[q] = "done" /\ req[q].upstream = << >>
    /\ sink[q].header = << "text/html" >>

\* ---------------------------------------------------------------------- C15
RECURSIVE BaseName(_)
\* The last component of a path.
BaseName(rel) ==
  IF \A i \in 1..Len(rel) : rel[i] # "/" THEN rel
  ELSE BaseName(Tail(rel))

\* The suffix of a file name from its first dot on, empty without a dot.
FirstDotSuffix(name) ==
  IF \A i \in 1..Len(name) : name[i] # "." THEN << >>
  ELSE LET i == CHOOSE k \in 1..Len(name) : name[k] = "." /\ \A j \in 1..(k-1) : name[j] # "."
       IN  SubSeq(name, i, Len(name))

\* The regular files of dir whose name's suffix is one of the extensions.
TemplateFiles(dir, extensions) ==
  { e \in Range(DirEntries(dir)) :
      ~e.isDir /\ FirstDotSuffix(BaseName(e.rel)) \in Range(extensions) }

\* A file's path without the suffix of its name.
Stripped(rel) == SubSeq(rel, 1, Len(rel) - Len(FirstDotSuffix(BaseName(rel))))

\* C15 (as claimed): once a Renderer call has compiled a directory, the
\* tree's nodes, its placeholder apart, are exactly the regular files of the
\* directory whose name's suffix from the first dot on is one of the configured
\* extensions, each under its relative path without that suffix, at any depth
\* and whatever the enclosing directories are called, and each holding the
\* file's text.
C15_NodesAreMatchingFiles ==
  \A p \in Procs :
    (req[p].op = "Renderer" /\ pc[p] = "done") =>
       LET o     == opts[lv[p].copt]
           T     == trees[hist[p].installed]
           files == TemplateFiles(o.Directory, o.Extensions)
       IN  /\ T.dir = o.Directory
           /\ DOMAIN T.nodes \ { << T.dir >> } = { Stripped(e.rel) : e \in files }
           /\ \A e \in files : T.nodes[Stripped(e.rel)] = e.body

\* ---------------------------------------------------------------------- C16
\* The bindings of another call that p's layout has been handed by its calls
\* of yield and current.
ForeignCalls(p) ==
  { c \in Range(hist[p].yieldCalls) \cup Range(hist[p].curCalls) :
      c.tplName # req[p].tplName }

\* C16: a layout render is handed another call's yield or current only when it
\* overlaps a render on the same set, and what it is handed is a binding made
\* on the one tree it executes; the witness is the interleaving in which that
\* happens.
C16_ForeignBindingFromSharedTree ==
  \A p \in Procs :
    (HasTree(p) /\ Len(lv[p].layout) > 0) =>
       \A c \in ForeignCalls(p) :
         /\ hist[p].overlap
         /\ c.bound
         /\ c \in Range(hist[p].yieldCalls) => c.t = lv[p].t

\* p rendered "a" in the layout, q rendered "b" in the layout on the same set
\* and tree at the same time, and p's layout expanded yield to "b"'s text.
C16_Witness ==
  \E p, q \in Procs :
    /\ p # q /\ HasTree(p) /\ HasTree(q)
    /\ req[p].setName = req[q].setName /\ lv[p].t = lv[q].t
    /\ lv[p].layout = << "layout" >> /\ lv[q].layout = << "layout" >>
    /\ req[p].tplName = << "a" >> /\ req[q].tplName = << "b" >>
    /\ pc[p] = "done" /\ lv[p].err = ""
    /\ Len(hist[p].yieldCalls) = 1 /\ hist[p].yieldCalls[1].tplName = << "b" >>
    /\ lv[p].out = << "<html>", "B:", "b", "b", "</html>" >>

\* ---------------------------------------------------------------------- C17
\* The pcs at which a worker is about to read a registry or a stored
\* configuration (lines 363, 466), and to write one (lines 158, 467, 222).
RegistryReads == {"rb_getopt", "stp_getopt"}
RegistryWrites == {"po_write", "stp_setdir", "c_install"}

\* C17 (as claimed): a worker about to read a registry holds the lock, shared
\* or exclusive; a worker about to write one holds it exclusively; so no two
\* workers are at a write and at another access at the same time.
C17_EveryAccessUnderLock ==
  \A p \in Procs :
    /\ pc[p] \in RegistryReads => (p \in lockR \/ lockW = p)
    /\ pc[p] \in RegistryWrites => lockW = p
    /\ \A q \in Procs \ {p} :
         ~(pc[p] \in RegistryWrites /\ pc[q] \in RegistryWrites \cup RegistryReads)

\* ---------------------------------------------------------------------- C18
\* C18 (as claimed): when a successful html/htmlSet render has returned, every
\* buffer it took from the pool, for the top-level execution and for each
\* yield, has been put back.
C18_BuffersAllReturned ==
  \A p \in Procs :
    (IsRender(p) /\ pc[p] = "done" /\ req[p].toSink /\ lv[p].err = "") =>
       hist[p].released = hist[p].acquired

\* ---------------------------------------------------------------------- C19
\* C19 (as claimed): a render that has failed has put no buffer back; it has
\* taken none when the set had no tree, and otherwise leaves exactly one
\* outstanding.
C19_FailureLeaksOneBuffer ==
  \A p \in Procs :
    (IsRender(p) /\ pc[p] \in {"rh_respond", "done"} /\ lv[p].err # "") =>
       /\ hist[p].released = 0
       /\ lv[p].t = 0 => hist[p].acquired = 0
       /\ lv[p].t # 0 => hist[p].acquired = 1

\* ---------------------------------------------------------------------- C20
Holds(p) == p \in lockR \/ lockW = p

\* C20: no worker holds the lock twice or waits for it while holding it; a
\* worker holds it only between an acquisition and its release, so none at the
\* start of a render's lookup (its recompile has released it), none while it
\* asks for the exclusive lock, none once its call has returned or has
\* panicked in compile or on a nil configuration; and every call in progress
\* comes to its end (or the process has died of a fault).
C20_LocksReleasedAndCallsEnd ==
  /\ [](\A p \in Procs :
          /\ ~(p \in lockR /\ lockW = p)
          /\ p \in lockWait => (~Holds(p) /\ pc[p] = "c_wait")
          /\ pc[p] \in {"idle", "done", "rb_getopt", "rb_lookup", "rh_respond", "c_build",
                        "c_lock", "c_wait", "po_rlock", "stp_getopt", "stp_setdir"}
               => ~Holds(p)
          /\ (pc[p] = "panicked" /\ lv[p].err # "concurrent map access") => ~Holds(p)
          /\ pc[p] = "ex" => (p \in lockR /\ lockW = None))
  /\ \A p \in Procs : Active(p) ~> (~Active(p) \/ crashed)

\* In development mode p has recompiled, holds the shared lock and is inside a
\* yield, while q waits for the exclusive lock.
C20_Witness ==
  \E p, q \in Procs :
    /\ Env = DEV /\ IsRender(p) /\ pc[p] = "ex" /\ hist[p].installed # 0
    /\ Len(lv[p].stack) = 2 /\ p \in lockR
    /\ pc[q] = "c_wait" /\ q \in lockWait
====
